---- MODULE Spec2Model ----
(***************************************************************************)
(* Model of top_senders (src/main.py): the paginated message enumerator    *)
(* get_all_message_ids, the header parser extract_sender_from_message, the *)
(* batched tally get_senders_batch and the driver fetch_senders.           *)
(*                                                                         *)
(* Python strings are sequences of one-character strings, dicts are        *)
(* records whose DOMAIN is the set of keys present, an insertion-ordered   *)
(* dict of counts is the sequence of its (key, count) items, and an        *)
(* optional value is the empty sequence (None) or a one-element sequence.  *)
(***************************************************************************)
EXTENDS Integers, Sequences, FiniteSets, TLC

(* ------------------------------ bounds --------------------------------- *)
\* largest mailbox the provider serves
MaxMsgs == 3
\* largest limit passed as max_messages (fetch_senders(service, limit))
MaxLimit == 2
\* the provider's page cap, 500 at main.py:123, scaled down
PageMax == 2
\* batch_size, 10 at main.py:66, scaled down
BatchSize == 2
\* length of the ranked report, 20 at main.py:180, scaled down
TopN == 2
\* longest "From" value given to the parser alone
MaxValLen == 4
\* longest header list given to the parser alone
MaxHeaders == 2

(* --------------------------- Python strings ---------------------------- *)
Char == {"a", "b", "<", ">", " "}
Whitespace == {" "}

RECURSIVE StringsOfLen(_)
StringsOfLen(n) ==
    IF n = 0 THEN {<<>>}
    ELSE {<<c>> \o s : c \in Char, s \in StringsOfLen(n - 1)}

Strings == UNION {StringsOfLen(n) : n \in 0..MaxValLen}

Min(a, b) == IF a < b THEN a ELSE b

\* c in s
Contains(s, c) == \E j \in 1..Len(s) : s[j] = c

\* a Python string, and a list of them
Text == Seq(STRING)
Texts == Seq(Text)

\* s.split(c), read left to right: pieces holds the pieces closed so far and,
\* last, the piece being read
SplitFrom[s \in Text, c \in STRING, pieces \in Texts] ==
    IF s = <<>> THEN pieces
    ELSE IF Head(s) = c
         THEN SplitFrom[Tail(s), c, Append(pieces, <<>>)]
         ELSE SplitFrom[Tail(s), c,
                        [pieces EXCEPT ![Len(pieces)] = Append(@, Head(s))]]

\* s.split(c): the pieces of s between occurrences of c, at least one piece
Split(s, c) == SplitFrom[s, c, << <<>> >>]

\* s.lstrip()
LStrip[s \in Text] ==
    IF s # <<>> /\ Head(s) \in Whitespace THEN LStrip[Tail(s)] ELSE s

\* s.rstrip()
RStrip[s \in Text] ==
    IF s # <<>> /\ s[Len(s)] \in Whitespace
    THEN RStrip[SubSeq(s, 1, Len(s) - 1)]
    ELSE s

StripLeftOnly(s) == LStrip[s]

\* s.strip()
Strip(s) == RStrip[LStrip[s]]

(* ------------------- extract_sender_from_message ----------------------- *)
\* the results that are not strings: Python's None, and an exception that
\* leaves the function
None == <<"None">>
Raised == <<"Raised">>

\* truth value of a returned sender: None and "" are false
Truthy(x) == x # None /\ x # <<>>

\* email = from_header.split('<')[1].split('>')[0]
BracketPiece(from_header) == Split(Split(from_header, "<")[2], ">")[1]

\* lines 51-56
ParseFrom(from_header) ==
    Strip(IF Contains(from_header, "<") /\ Contains(from_header, ">")
          THEN BracketPiece(from_header)
          ELSE from_header)

\* the loop of lines 48-57; a missing key raises KeyError
RECURSIVE ScanHeaders(_)
ScanHeaders(headers) ==
    IF headers = <<>> THEN None
    ELSE LET header == Head(headers)
         IN  IF "name" \notin DOMAIN header THEN Raised
             ELSE IF header.name = "From"
                  THEN IF "value" \notin DOMAIN header THEN Raised
                       ELSE ParseFrom(header.value)
                  ELSE ScanHeaders(Tail(headers))

\* the body of the try, lines 47-57
ExtractBody(message_data) ==
    IF "payload" \notin DOMAIN message_data THEN Raised
    ELSE ScanHeaders(IF "headers" \in DOMAIN message_data.payload
                     THEN message_data.payload.headers
                     ELSE <<>>)

ExtractUncaught(message_data) == ExtractBody(message_data)

\* try / except Exception: return None
extract_sender_from_message(message_data) ==
    IF ExtractBody(message_data) = Raised THEN None
    ELSE ExtractBody(message_data)

(* ------------------------ the tally (a dict) --------------------------- *)
HasKey(d, k) == \E j \in 1..Len(d) : d[j][1] = k

\* sender_counts[k] += 1 on a defaultdict(int)
Inc(d, k) ==
    IF HasKey(d, k)
    THEN [j \in 1..Len(d) |-> IF d[j][1] = k THEN <<k, d[j][2] + 1>> ELSE d[j]]
    ELSE Append(d, <<k, 1>>)

\* the dict as a mapping, insertion order forgotten
AsMap(d) == {d[j] : j \in 1..Len(d)}

\* the dicts of counts, as item lists
Tallies == Seq(Text \X Nat)

SumCounts(d) ==
    LET sum[n \in 0..Len(d)] == IF n = 0 THEN 0 ELSE sum[n - 1] + d[n][2]
    IN  sum[Len(d)]

TallyAlways(counts, sender) == IF sender # None THEN Inc(counts, sender) ELSE counts

\* lines 104-105: if sender: sender_counts[sender] += 1
TallyOne(counts, sender) == IF Truthy(sender) THEN Inc(counts, sender) ELSE counts

\* the same step, its arguments taken as values
TallyStep[counts \in Tallies, sender \in Text] == TallyOne(counts, sender)

(* -------------------------- get_senders_batch -------------------------- *)
BatchIdsShort(ids, i) == SubSeq(ids, i + 1, Min(i + BatchSize, Len(ids)) - 1)

\* message_ids[i:i + batch_size]
BatchIds(ids, i) == SubSeq(ids, i + 1, Min(i + BatchSize, Len(ids)))

BatchResultsUntilFailure(batch_ids, cont, fail) ==
    LET bad == {j \in 1..Len(batch_ids) : batch_ids[j] \in fail}
        ok == IF bad = {} THEN batch_ids
              ELSE SubSeq(batch_ids, 1, (CHOOSE j \in bad : \A m \in bad : j <= m) - 1)
    IN  [j \in 1..Len(ok) |-> <<ok[j], cont[ok[j]]>>]

\* what the callback leaves in batch_results after batch.execute(): the
\* responses of the requests that did not fail, keyed by id, in request order
BatchResults(batch_ids, cont, fail) ==
    LET Ok(id) == id \notin fail
        ok == SelectSeq(batch_ids, Ok)
    IN  [j \in 1..Len(ok) |-> <<ok[j], cont[ok[j]]>>]

\* lines 102-105: the results are tallied in the order of batch_results
TallyResults(counts, results) ==
    LET tally[n \in 0..Len(results)] ==
            IF n = 0 THEN counts
            ELSE TallyStep[tally[n - 1],
                           extract_sender_from_message(results[n][2])]
    IN  tally[Len(results)]

\* one iteration of the loop of lines 78-107
ProcessBatch(counts, batch_ids, cont, fail) ==
    TallyResults(counts, BatchResults(batch_ids, cont, fail))

RECURSIVE BatchLoop(_, _, _, _, _)
BatchLoop(ids, cont, fail, i, counts) ==
    IF i >= Len(ids) THEN counts
    ELSE BatchLoop(ids, cont, fail, i + BatchSize,
                   ProcessBatch(counts, BatchIds(ids, i), cont, fail))

\* the whole function, as a function of the ids, the messages' contents and
\* the set of ids whose request fails
get_senders_batch(ids, cont, fail) == BatchLoop(ids, cont, fail, 0, <<>>)

(* ---------------------------- the report ------------------------------- *)
InsertBeforeTies(sorted, item) ==
    LET before == {j \in 0..Len(sorted) :
                      \A m \in 1..j : sorted[m][2] > item[2]}
        pos == CHOOSE j \in before : \A m \in before : m <= j
    IN  SubSeq(sorted, 1, pos) \o <<item>> \o SubSeq(sorted, pos + 1, Len(sorted))

\* an item goes after every item whose count is at least its own: the sort is
\* stable, also with reverse=True
InsertDesc(sorted, item) ==
    LET before == {j \in 0..Len(sorted) :
                      \A m \in 1..j : sorted[m][2] >= item[2]}
        pos == CHOOSE j \in before : \A m \in before : m <= j
    IN  SubSeq(sorted, 1, pos) \o <<item>> \o SubSeq(sorted, pos + 1, Len(sorted))

InsertStep[sorted \in Tallies, item \in Text \X Nat] == InsertDesc(sorted, item)

\* sorted(sender_counts.items(), key=lambda x: x[1], reverse=True)
SortedByCountDesc(items) ==
    LET sort[n \in 0..Len(items)] ==
            IF n = 0 THEN <<>> ELSE InsertStep[sort[n - 1], items[n]]
    IN  sort[Len(items)]

\* sorted(...)[:20]
TopSenders(counts) ==
    SubSeq(SortedByCountDesc(counts), 1, Min(TopN, Len(counts)))

(* ------------------------- the provider's data ------------------------- *)
Str_a == <<"a">>
Str_name_b == <<"a", " ", "<", "b", ">">>
Str_ab == <<"<", "a", "b", ">">>
Str_blank == <<" ">>

Header(n, v) == [name |-> n, value |-> v]

\* a messages.get response with format='metadata'
Message(hs) == [id |-> "m", payload |-> [mimeType |-> "text/plain", headers |-> hs]]
MessageNoHeaders == [id |-> "m", payload |-> [mimeType |-> "text/plain"]]
MessageNoPayload == [id |-> "m"]

\* the messages a mailbox of the pipeline is made of
Catalog ==
    { Message(<<Header("From", Str_a)>>),
      Message(<<Header("From", Str_name_b)>>),
      Message(<<Header("From", Str_ab)>>),
      Message(<<Header("From", Str_blank)>>),
      Message(<<Header("Subject", Str_a)>>),
      MessageNoPayload }

\* the messages given to the parser alone
HeaderNames == {"From", "Subject"}
SampleValues == {Str_a, Str_name_b}
HeaderEntries ==
    {Header(n, v) : n \in HeaderNames, v \in SampleValues}
        \cup {[name |-> n] : n \in HeaderNames}
        \cup {[value |-> v] : v \in SampleValues}

RECURSIVE HeaderListsOfLen(_)
HeaderListsOfLen(n) ==
    IF n = 0 THEN {<<>>}
    ELSE {<<h>> \o hs : h \in HeaderEntries, hs \in HeaderListsOfLen(n - 1)}

MessageInputs ==
    {Message(<<Header("From", v)>>) : v \in Strings}
        \cup {Message(hs) : hs \in UNION {HeaderListsOfLen(n) : n \in 0..MaxHeaders}}
        \cup {MessageNoHeaders, MessageNoPayload}

\* max_messages: None, or an integer
Limits == {<<>>} \cup {<<m>> : m \in 0..MaxLimit}

(* ------------------------------- state --------------------------------- *)
VARIABLES
    mailbox,        \* the provider: the ids it lists, in its order
    content,        \* the provider: id -> the metadata it returns
    limit,          \* the limit fetch_senders is called with
    phase,          \* where fetch_senders is
    pc,             \* where the running loop is
    message_ids,    \* get_all_message_ids: message_ids
    page_token,     \* get_all_message_ids: page_token
    page_count,     \* get_all_message_ids: page_count
    sender_counts,  \* get_senders_batch: sender_counts
    i,              \* get_senders_batch: i
    failed,         \* the ids whose batched request failed so far
    top_senders,    \* fetch_senders: top_senders
    reported,       \* the ranked report was printed
    last_call,      \* the last request or sleep of the run
    message_data,   \* the argument of extract_sender_from_message called alone
    sender          \* its result

vars == <<mailbox, content, limit, phase, pc, message_ids, page_token, page_count,
          sender_counts, i, failed, top_senders, reported, last_call,
          message_data, sender>>

provider == <<mailbox, content, limit>>
parser == <<message_data, sender>>

Range(s) == {s[j] : j \in 1..Len(s)}

(* ------------------------- get_all_message_ids ------------------------- *)
\* "if max_messages": None and 0 are false
LimitTruthy(l) == l # <<>> /\ l[1] # 0

\* line 123
PageSize(l, ids) ==
    Min(PageMax, IF LimitTruthy(l) THEN l[1] - Len(ids) ELSE PageMax)

\* line 143
LimitReached(l, ids) == LimitTruthy(l) /\ Len(ids) >= l[1]

\* line 144: message_ids[:max_messages]
Truncate(ids, l) == SubSeq(ids, 1, Min(l[1], Len(ids)))

ExtendFront(ids, batch_ids) == batch_ids \o ids

\* line 137: message_ids.extend(batch_ids)
Extend(ids, batch_ids) == ids \o batch_ids

NoSleepAfterPage(token) == IF token = <<>> THEN "enum_done" ELSE "list"

\* lines 148-153: leave the loop without a token, sleep before the next page
AfterPage(token) == IF token = <<>> THEN "enum_done" ELSE "page_sleep"

\* the lengths of the page the provider may answer with: empty only when
\* nothing is left, never more than maxResults
PageLens(page_size, remaining) ==
    IF remaining = 0 THEN {0} ELSE 1..Min(page_size, remaining)

\* fetch_senders is called: lines 158-165 and 116-119
Start ==
    /\ phase = "Idle"
    /\ phase' = "Enumerating"
    /\ pc' = "list"
    /\ message_ids' = <<>>
    /\ page_token' = <<>>
    /\ page_count' = 0
    /\ UNCHANGED <<provider, parser, sender_counts, i, failed, top_senders,
                   reported, last_call>>

\* one iteration of the loop of lines 121-150, up to its break or its sleep
ListPage ==
    /\ phase = "Enumerating"
    /\ pc = "list"
    /\ LET offset == IF page_token = <<>> THEN 0 ELSE page_token[1]
           remaining == Len(mailbox) - offset
       IN  \E k \in PageLens(PageSize(limit, message_ids), remaining),
              more \in BOOLEAN :
             LET messages == SubSeq(mailbox, offset + 1, offset + k)
                 nextPageToken == IF offset + k < Len(mailbox) \/ more
                                  THEN <<offset + k>>
                                  ELSE <<>>
                 ids == Extend(message_ids, messages)
             IN  IF messages = <<>>
                 THEN /\ pc' = "enum_done"
                      /\ UNCHANGED <<message_ids, page_token, page_count>>
                 ELSE /\ page_count' = page_count + 1
                      /\ IF LimitReached(limit, ids)
                         THEN /\ message_ids' = Truncate(ids, limit)
                              /\ pc' = "enum_done"
                              /\ UNCHANGED page_token
                         ELSE /\ message_ids' = ids
                              /\ page_token' = nextPageToken
                              /\ pc' = AfterPage(nextPageToken)
    /\ last_call' = "list"
    /\ UNCHANGED <<provider, parser, phase, sender_counts, i, failed,
                   top_senders, reported>>

\* line 153
PageSleep ==
    /\ phase = "Enumerating"
    /\ pc = "page_sleep"
    /\ pc' = "list"
    /\ last_call' = "sleep"
    /\ UNCHANGED <<provider, parser, phase, message_ids, page_token, page_count,
                   sender_counts, i, failed, top_senders, reported>>

(* ---------------------------- fetch_senders ---------------------------- *)
AlwaysProcess(ids) == "Processing"

\* lines 167-172: return {} when nothing was listed
AfterEnumeration(ids) == IF ids = <<>> THEN "Done" ELSE "Processing"

\* get_all_message_ids returns and its locals are gone; lines 155-156,
\* 165-172 and 64-66
EnumReturn ==
    /\ phase = "Enumerating"
    /\ pc = "enum_done"
    /\ phase' = AfterEnumeration(message_ids)
    /\ pc' = IF phase' = "Done" THEN "done" ELSE "batch"
    /\ page_token' = <<>>
    /\ page_count' = 0
    /\ sender_counts' = <<>>
    /\ i' = 0
    /\ UNCHANGED <<provider, parser, message_ids, failed, top_senders, reported,
                   last_call>>

\* one batch: lines 79-107, with the requests of the ids in fail failing
BatchExecute ==
    /\ phase = "Processing"
    /\ pc = "batch"
    /\ i < Len(message_ids)
    /\ \E fail \in SUBSET Range(BatchIds(message_ids, i)) :
          /\ sender_counts' =
                 ProcessBatch(sender_counts, BatchIds(message_ids, i), content, fail)
          /\ failed' = failed \cup fail
    /\ pc' = "batch_sleep"
    /\ last_call' = "batch"
    /\ UNCHANGED <<provider, parser, phase, message_ids, page_token, page_count,
                   i, top_senders, reported>>

\* line 110, then the next i of range(0, len(message_ids), batch_size) or
\* the return of line 112
BatchSleep ==
    /\ phase = "Processing"
    /\ pc = "batch_sleep"
    /\ i' = i + BatchSize
    /\ last_call' = "sleep"
    /\ IF i' >= Len(message_ids)
       THEN phase' = "Reporting" /\ pc' = "report"
       ELSE phase' = phase /\ pc' = "batch"
    /\ UNCHANGED <<provider, parser, message_ids, page_token, page_count,
                   sender_counts, failed, top_senders, reported>>

\* lines 174-184
Report ==
    /\ phase = "Reporting"
    /\ top_senders' = TopSenders(sender_counts)
    /\ reported' = TRUE
    /\ phase' = "Done"
    /\ pc' = "done"
    /\ UNCHANGED <<provider, parser, message_ids, page_token, page_count,
                   sender_counts, i, failed, last_call>>

(* --------------------------- specifications ---------------------------- *)
Mailboxes == {[j \in 1..n |-> j] : n \in 0..MaxMsgs}

Init ==
    /\ mailbox \in Mailboxes
    /\ content \in [Range(mailbox) -> Catalog]
    /\ limit \in Limits
    /\ phase = "Idle"
    /\ pc = "idle"
    /\ message_ids = <<>>
    /\ page_token = <<>>
    /\ page_count = 0
    /\ sender_counts = <<>>
    /\ i = 0
    /\ failed = {}
    /\ top_senders = <<>>
    /\ reported = FALSE
    /\ last_call = "none"
    /\ message_data = MessageNoPayload
    /\ sender = None

Next ==
    \/ Start
    \/ ListPage
    \/ PageSleep
    \/ EnumReturn
    \/ BatchExecute
    \/ BatchSleep
    \/ Report

\* one run of fetch_senders against any mailbox
Spec == Init /\ [][Next]_vars

\* the run is a single thread that never waits for anything but its own sleeps
FairSpec == Spec /\ WF_vars(Next)

\* extract_sender_from_message and the tally step of lines 103-105, on one
\* message
InitExtract ==
    /\ message_data \in MessageInputs
    /\ sender = None
    /\ pc = "extract"
    /\ phase = "Idle"
    /\ mailbox = <<>>
    /\ content = <<>>
    /\ limit = <<>>
    /\ message_ids = <<>>
    /\ page_token = <<>>
    /\ page_count = 0
    /\ sender_counts = <<>>
    /\ i = 0
    /\ failed = {}
    /\ top_senders = <<>>
    /\ reported = FALSE
    /\ last_call = "none"

ExtractOne ==
    /\ pc = "extract"
    /\ sender' = extract_sender_from_message(message_data)
    /\ sender_counts' = TallyOne(sender_counts, sender')
    /\ pc' = "extracted"
    /\ UNCHANGED <<provider, phase, message_ids, page_token, page_count, i, failed,
                   top_senders, reported, last_call, message_data>>

NextExtract == ExtractOne

SpecExtract == InitExtract /\ [][NextExtract]_vars

(* ------------------ individual mode (spec.md section 4.3) -------------- *)
\* for each id in enumeration order: fetch, extract, tally; a failed fetch is
\* skipped
IndividualTally(ids, cont, fail) ==
    LET tally[n \in 0..Len(ids)] ==
            IF n = 0 THEN <<>>
            ELSE IF ids[n] \in fail THEN tally[n - 1]
                 ELSE TallyStep[tally[n - 1],
                                extract_sender_from_message(cont[ids[n]])]
    IN  tally[Len(ids)]

(* ------------------------ vocabulary of the claims --------------------- *)
\* get_all_message_ids has left its loop
EnumDone == pc = "enum_done"

\* get_senders_batch has returned
BatchDone == phase = "Reporting" \/ reported

\* the ids whose metadata reached the callback
Fetched == Range(message_ids) \ failed

SenderOf(id) == extract_sender_from_message(content[id])

NotFailed(id) == id \notin failed

\* the lowest index of a set of indices
Lowest(S) == CHOOSE j \in S : \A m \in S : j <= m

\* s without the spaces at its two ends, by positions
Trimmed(s) ==
    LET solid == {j \in 1..Len(s) : s[j] # " "}
    IN  IF solid = {} THEN <<>>
        ELSE SubSeq(s, Lowest(solid), CHOOSE j \in solid : \A m \in solid : m <= j)

\* extract_sender_from_message, called alone, has returned
Returned == pc = "extracted"

HasPayload(md) == "payload" \in DOMAIN md

HeadersOf(md) ==
    IF HasPayload(md) /\ "headers" \in DOMAIN md.payload
    THEN md.payload.headers
    ELSE <<>>

\* the positions of the entries the scan cannot pass: those without a name
\* and those named From
Stops(hs) == {j \in 1..Len(hs) : "name" \notin DOMAIN hs[j] \/ hs[j].name = "From"}

\* the scan reaches a From header that has a value
ReachesFrom(md) ==
    /\ HasPayload(md)
    /\ Stops(HeadersOf(md)) # {}
    /\ LET h == HeadersOf(md)[Lowest(Stops(HeadersOf(md)))]
       IN  "name" \in DOMAIN h /\ "value" \in DOMAIN h

FromValue(md) == HeadersOf(md)[Lowest(Stops(HeadersOf(md)))].value

(* ------------------------------- C1 ------------------------------------ *)
\* C1: for every limit given as max_messages, the enumerator returns at most
\* that many ids, and exactly the first max_messages ids of the mailbox, in
\* provider order, when the mailbox holds at least that many.
C1_LimitRespected ==
    (EnumDone /\ limit # <<>>) =>
        /\ Len(message_ids) <= limit[1]
        /\ Len(mailbox) >= limit[1] => message_ids = SubSeq(mailbox, 1, limit[1])

(* ------------------------------- C2 ------------------------------------ *)
\* C2: without a limit the enumerator returns every id of the mailbox, the
\* pages concatenated in the order served, nothing reordered or dropped.
C2_AllWithoutLimit ==
    (EnumDone /\ limit = <<>>) => message_ids = mailbox

C2_Witness ==
    /\ EnumDone
    /\ limit = <<>>
    /\ page_count >= 2
    /\ Len(message_ids) = MaxMsgs

(* ------------------------------- C3 ------------------------------------ *)
\* C3 as stated: when the batched tally returns, the sum of its counts is the
\* number of fetched messages whose extraction returned a non-none value.
C3_SumCountsNonNone ==
    BatchDone =>
        SumCounts(sender_counts) = Cardinality({id \in Fetched : SenderOf(id) # None})

\* C3 as amended: when the batched tally returns, the sum of its counts is the
\* number of fetched messages whose extraction returned a value that is
\* neither none nor the empty string.
C3_SumCountsNonEmpty ==
    BatchDone =>
        SumCounts(sender_counts) =
            Cardinality({id \in Fetched : SenderOf(id) # None /\ SenderOf(id) # <<>>})

C3_Witness ==
    /\ BatchDone
    /\ failed # {}
    /\ \E id \in Fetched : SenderOf(id) = <<>>
    /\ sender_counts # <<>>

(* ------------------------------- C4 ------------------------------------ *)
\* C4 as stated: for a From value with both '<' and '>', the sender is the
\* text strictly between the first '<' and the first '>' after it, trimmed;
\* for any other value it is the whole value, trimmed.
C4_BetweenFirstBrackets ==
    (Returned /\ ReachesFrom(message_data)) =>
        LET v == FromValue(message_data)
            open == Lowest({j \in 1..Len(v) : v[j] = "<"})
            closes == {j \in 1..Len(v) : v[j] = ">" /\ j > open}
        IN  IF Contains(v, "<") /\ Contains(v, ">")
            THEN closes # {} => sender = Trimmed(SubSeq(v, open + 1, Lowest(closes) - 1))
            ELSE sender = Trimmed(v)

\* C4 as amended: for a From value with both '<' and '>', the sender is the
\* text after the first '<' up to the next '<' or '>', or to the end of the
\* value when none follows, trimmed; for any other value it is the whole
\* value, trimmed. A value `Name <addr>` yields addr.
C4_UpToNextBracket ==
    (Returned /\ ReachesFrom(message_data)) =>
        LET v == FromValue(message_data)
            open == Lowest({j \in 1..Len(v) : v[j] = "<"})
            ends == {j \in 1..(Len(v) + 1) :
                        j > open /\ (j = Len(v) + 1 \/ v[j] \in {"<", ">"})}
        IN  /\ IF Contains(v, "<") /\ Contains(v, ">")
               THEN sender = Trimmed(SubSeq(v, open + 1, Lowest(ends) - 1))
               ELSE sender = Trimmed(v)
            /\ \A p \in 1..Len(v) :
                  (/\ v[p] = "<"
                   /\ v[Len(v)] = ">"
                   /\ \A j \in 1..(Len(v) - 1) : j # p => v[j] \notin {"<", ">"})
                  => sender = Trimmed(SubSeq(v, p + 1, Len(v) - 1))

C4_Witness ==
    /\ Returned
    /\ message_data = Message(<<Header("From", <<"<", "a", "<", ">">>)>>)
    /\ sender = <<"a">>

(* ------------------------------- C5 ------------------------------------ *)
HasMalformedEntry(md) ==
    \E j \in 1..Len(HeadersOf(md)) :
        "name" \notin DOMAIN HeadersOf(md)[j] \/ "value" \notin DOMAIN HeadersOf(md)[j]

HasFromEntry(md) ==
    \E j \in 1..Len(HeadersOf(md)) :
        "name" \in DOMAIN HeadersOf(md)[j] /\ HeadersOf(md)[j].name = "From"

\* C5 as stated: the parser never propagates an error; a message with no
\* From header, no payload, or a header entry lacking name or value yields
\* none and is not tallied.
C5_MalformedYieldsNone ==
    Returned =>
        /\ sender # Raised
        /\ (\/ ~HasPayload(message_data)
            \/ ~HasFromEntry(message_data)
            \/ HasMalformedEntry(message_data))
           => (sender = None /\ sender_counts = <<>>)

\* C5 as amended: the parser never propagates an error; it yields none, and
\* nothing is tallied, exactly when the message has no payload, or no entry
\* named From, or an entry without a name before the first From entry, or a
\* first From entry without a value. Entries after the first From entry, and
\* the value of an entry with another name, are never read.
C5_ReachedMalformedYieldsNone ==
    Returned =>
        /\ sender # Raised
        /\ IF ReachesFrom(message_data)
           THEN sender # None
           ELSE sender = None /\ sender_counts = <<>>

C5_Witness ==
    /\ Returned
    /\ HasMalformedEntry(message_data)
    /\ ~ReachesFrom(message_data)
    /\ HasFromEntry(message_data)
    /\ sender = None

FirstTallied(s) ==
    Lowest({p \in 1..Len(message_ids) :
               message_ids[p] \notin failed /\ SenderOf(message_ids[p]) = s})

PipelineOrder ==
    { <<"Idle", "Enumerating">>, <<"Enumerating", "Processing">>,
      <<"Processing", "Reporting">>, <<"Reporting", "Done">> }

\* C9 as stated: a run moves Idle, Enumerating, Processing, Reporting, Done,
\* one after the other, none skipped, whatever the mailbox.
C9_NoStateSkipped ==
    [][phase' # phase => <<phase, phase'>> \in PipelineOrder]_vars

\* C9 as amended: a run that enumerated at least one id moves Idle,
\* Enumerating, Processing, Reporting, Done, one after the other; a run whose
\* enumeration yields no id moves from Enumerating straight to Done; no state
\* is revisited, and every run reaches Done.
C9_OrderUnlessEmpty ==
    /\ [][phase' # phase =>
             IF phase = "Enumerating" /\ message_ids = <<>>
             THEN phase' = "Done"
             ELSE <<phase, phase'>> \in PipelineOrder]_vars
    /\ <>(phase = "Done")

C9_Witness ==
    /\ phase = "Done"
    /\ ~reported
    /\ message_ids = <<>>
    /\ last_call = "list"

(* ------------------------------- C10 ----------------------------------- *)
\* C10: a listing request after the first, and a batch request after the
\* first, is issued right after a sleep: two listing requests, or two batch
\* requests, are never issued back to back.
C10_Throttled ==
    [][/\ (ListPage /\ page_count > 0) => last_call = "sleep"
       /\ (BatchExecute /\ i > 0) => last_call = "sleep"]_vars

C10_Witness ==
    /\ Len(message_ids) > PageMax
    /\ i > 0
    /\ last_call = "batch"

====
